---------------------------- MODULE Spec2Model ----------------------------
(***************************************************************************)
(* Model of the dxf2svg geometry pipeline and its batch GUI driver.        *)
(*                                                                         *)
(*   SpecGroup : group_lines_and_polylines (src/test_examples.py) applied  *)
(*               to bounded entity lists.                                  *)
(*   SpecNorm  : DXFToSVG.normalize_coordinates (src/dxf2svg_core.py)      *)
(*               applied to bounded entity lists and canvas targets.       *)
(*   SpecPure  : either of the two, for what holds of both.                *)
(*   SpecExtract : DXFToSVG.extract_all_lines on bounded modelspaces.      *)
(*   SpecEmit  : DXFToSVG.entities_to_svg_elements on bounded lists.       *)
(*   Spec      : DXFToSVGGUI (src/dxf2svg_gui.py) driving                  *)
(*               DXFToSVG.convert_dxf_to_svg on a worker thread.           *)
(*   SpecFair  : Spec with the fairness of the thread and the main loop.   *)
(*   SpecTracked : Spec with the list the worker was started on.           *)
(*                                                                         *)
(* Python floats are modelled as exact rationals <<num, den>> in lowest    *)
(* terms (den > 0); floating-point rounding error is outside the model.    *)
(***************************************************************************)
EXTENDS Integers, Sequences, FiniteSets, TLC

(***************************************************************************)
(* Exact rational arithmetic standing in for Python float arithmetic.      *)
(***************************************************************************)
Abs(n) == IF n < 0 THEN -n ELSE n

RECURSIVE GCD(_, _)
GCD(a, b) == IF b = 0 THEN a ELSE GCD(b, a % b)

Rat(n, d) ==
    LET g == GCD(Abs(n), Abs(d))
        s == IF d < 0 THEN -1 ELSE 1
    IN  <<(s * n) \div g, (s * d) \div g>>

RInt(n) == <<n, 1>>
RAdd(a, b) == Rat(a[1] * b[2] + b[1] * a[2], a[2] * b[2])
RSub(a, b) == Rat(a[1] * b[2] - b[1] * a[2], a[2] * b[2])
RMul(a, b) == Rat(a[1] * b[1], a[2] * b[2])
RDiv(a, b) == Rat(a[1] * b[2], a[2] * b[1])
RLt(a, b) == a[1] * b[2] < b[1] * a[2]
RLe(a, b) == a[1] * b[2] <= b[1] * a[2]
RMin2(a, b) == IF RLt(b, a) THEN b ELSE a
RMax2(a, b) == IF RLt(a, b) THEN b ELSE a

\* min(list) / max(list) of a non-empty sequence of rationals
RECURSIVE RMinSeq(_)
RMinSeq(s) == IF Len(s) = 1 THEN s[1] ELSE RMin2(s[1], RMinSeq(Tail(s)))

RECURSIVE RMaxSeq(_)
RMaxSeq(s) == IF Len(s) = 1 THEN s[1] ELSE RMax2(s[1], RMaxSeq(Tail(s)))

\* Python round(x) on a float: nearest integer, ties to the even integer
Round(r) ==
    LET q == r[1] \div r[2]
        rem == r[1] - q * r[2]
    IN  IF 2 * rem < r[2] THEN q
        ELSE IF 2 * rem > r[2] THEN q + 1
        ELSE IF q % 2 = 0 THEN q ELSE q + 1

SeqsUpTo(S, n) == UNION {[1..k -> S] : k \in 0..n}

(***************************************************************************)
(* Canonical entities (the dicts built by extract_all_lines).              *)
(***************************************************************************)
DefaultLayer == "0"
DefaultColor == 7

LineEntity(s, e) ==
    [type |-> "LINE", start |-> s, end |-> e,
     layer |-> DefaultLayer, color |-> DefaultColor]

PointsEntity(t, pts, c) ==
    [type |-> t, points |-> pts, closed |-> c,
     layer |-> DefaultLayer, color |-> DefaultColor]

Pt(x, y) == <<RInt(x), RInt(y)>>

(***************************************************************************)
(* Connectivity grouper: src/test_examples.py                               *)
(***************************************************************************)
\* point_key(pt, tol): (round(pt[0]/tol)*tol, round(pt[1]/tol)*tol)
point_key(pt, tol) ==
    <<RMul(RInt(Round(RDiv(pt[1], tol))), tol),
      RMul(RInt(Round(RDiv(pt[2], tol))), tol)>>

\* first loop: indices of the entities that become singleton groups
UsedTypes == {"POLYLINE", "LWPOLYLINE"}

used_of(ents) == {i \in 1..Len(ents) : ents[i].type \in UsedTypes}

\* the singleton groups of the first loop, in input order
RECURSIVE PolyGroups(_, _)
PolyGroups(ents, i) ==
    IF i > Len(ents) THEN <<>>
    ELSE IF ents[i].type \in UsedTypes
         THEN <<(<<i>>)>> \o PolyGroups(ents, i + 1)
         ELSE PolyGroups(ents, i + 1)

IsSegment(ents, i) == ents[i].type = "LINE" /\ i \notin used_of(ents)

\* the quantized endpoint keys of the segments
segment_keys(ents, tol) ==
    UNION {{point_key(ents[i].start, tol), point_key(ents[i].end, tol)} :
             i \in {j \in 1..Len(ents) : IsSegment(ents, j)}}

\* lines_at with the end point never indexed (line 44 dropped)
RECURSIVE lines_at_StartOnly(_, _, _, _)
lines_at_StartOnly(ents, tol, key, i) ==
    IF i = 0 THEN <<>>
    ELSE LET base == lines_at_StartOnly(ents, tol, key, i - 1)
         IN  IF IsSegment(ents, i) /\ point_key(ents[i].start, tol) = key
             THEN Append(base, i) ELSE base

\* the list point_to_lines[key] after the entities up to index i were added
\* (an index is appended once for its start key and once for its end key)
RECURSIVE lines_at(_, _, _, _)
lines_at(ents, tol, key, i) ==
    IF i = 0 THEN <<>>
    ELSE LET base == lines_at(ents, tol, key, i - 1)
             seg == IsSegment(ents, i)
             a == IF seg /\ point_key(ents[i].start, tol) = key
                  THEN Append(base, i) ELSE base
         IN  IF seg /\ point_key(ents[i].end, tol) = key
             THEN Append(a, i) ELSE a

\* second loop: the dict point_to_lines
point_to_lines(ents, tol) ==
    [key \in segment_keys(ents, tol) |-> lines_at(ents, tol, key, Len(ents))]

\* BFS without the re-check of a dequeued index (lines 54-55 dropped)
RECURSIVE BFS_NoRecheck(_, _, _, _, _, _)
BFS_NoRecheck(ents, tol, ptl, queue, visited, group) ==
    IF queue = <<>> THEN [visited |-> visited, group |-> group]
    ELSE LET cur == Head(queue)
             visited2 == visited \cup {cur}
             Fresh(nb) == nb # cur /\ nb \notin visited2
             n1 == SelectSeq(ptl[point_key(ents[cur].start, tol)], Fresh)
             n2 == SelectSeq(ptl[point_key(ents[cur].end, tol)], Fresh)
         IN  BFS_NoRecheck(ents, tol, ptl, Tail(queue) \o n1 \o n2, visited2,
                           Append(group, cur))

\* the while-queue loop of one BFS; returns the visited set and the group
RECURSIVE BFS(_, _, _, _, _, _)
BFS(ents, tol, ptl, queue, visited, group) ==
    IF queue = <<>> THEN [visited |-> visited, group |-> group]
    ELSE LET cur == Head(queue)
             rest == Tail(queue)
         IN  IF cur \in visited
             THEN BFS(ents, tol, ptl, rest, visited, group)
             ELSE LET visited2 == visited \cup {cur}
                      Fresh(nb) == nb # cur /\ nb \notin visited2
                      n1 == SelectSeq(ptl[point_key(ents[cur].start, tol)], Fresh)
                      n2 == SelectSeq(ptl[point_key(ents[cur].end, tol)], Fresh)
                  IN  BFS(ents, tol, ptl, rest \o n1 \o n2, visited2,
                          Append(group, cur))

RECURSIVE SegmentGroups(_, _, _, _, _)

\* SegmentGroups with each new group put in front of the earlier ones
SegmentGroups_Prepend(ents, tol, ptl, i, visited) ==
    IF i > Len(ents) THEN <<>>
    ELSE IF ents[i].type # "LINE" \/ i \in used_of(ents) \/ i \in visited
         THEN SegmentGroups(ents, tol, ptl, i + 1, visited)
         ELSE LET r == BFS(ents, tol, ptl, <<i>>, visited, <<>>)
              IN  SegmentGroups(ents, tol, ptl, i + 1, r.visited)
                  \o (IF r.group # <<>> THEN <<r.group>> ELSE <<>>)

\* third loop: one BFS per unvisited segment, in input order
SegmentGroups(ents, tol, ptl, i, visited) ==
    IF i > Len(ents) THEN <<>>
    ELSE IF ents[i].type # "LINE" \/ i \in used_of(ents) \/ i \in visited
         THEN SegmentGroups(ents, tol, ptl, i + 1, visited)
         ELSE LET r == BFS(ents, tol, ptl, <<i>>, visited, <<>>)
              IN  (IF r.group # <<>> THEN <<r.group>> ELSE <<>>)
                  \o SegmentGroups(ents, tol, ptl, i + 1, r.visited)

\* group_lines_and_polylines with the groups in the order of the loops
\* exchanged: the groups of segments ahead of the polyline groups
group_lines_and_polylines_SegmentsFirst(ents, tol) ==
    LET ptl == point_to_lines(ents, tol)
    IN  SegmentGroups(ents, tol, ptl, 1, {}) \o PolyGroups(ents, 1)

\* A group is the sequence of input indices of its members: index i stands
\* for the entity object entities[i] that the code appends to the group.
group_lines_and_polylines(ents, tol) ==
    LET ptl == point_to_lines(ents, tol)
    IN  PolyGroups(ents, 1) \o SegmentGroups(ents, tol, ptl, 1, {})

(***************************************************************************)
(* Normalizer: src/dxf2svg_core.py                                         *)
(***************************************************************************)
\* x_coords / y_coords collected by get_bounding_box (axis 1 = x, 2 = y)
RECURSIVE coords_of(_, _)
coords_of(ents, axis) ==
    IF ents = <<>> THEN <<>>
    ELSE LET e == Head(ents)
             own == IF e.type = "LINE"
                    THEN <<e.start[axis], e.end[axis]>>
                    ELSE [k \in 1..Len(e.points) |-> e.points[k][axis]]
         IN  own \o coords_of(Tail(ents), axis)

\* get_bounding_box without the "if not entities" placeholder return
get_bounding_box_NoPlaceholder(ents) ==
    LET xs == coords_of(ents, 1)
        ys == coords_of(ents, 2)
    IN  IF xs = <<>> THEN [error |-> "ValueError"]
        ELSE [error |-> "none",
              min_x |-> RMinSeq(xs), min_y |-> RMinSeq(ys),
              max_x |-> RMaxSeq(xs), max_y |-> RMaxSeq(ys)]

\* get_bounding_box: placeholder for no entities; min()/max() of an empty
\* list raises ValueError (entities present but without any point)
get_bounding_box(ents) ==
    IF ents = <<>>
    THEN [error |-> "none", min_x |-> RInt(0), min_y |-> RInt(0),
          max_x |-> RInt(100), max_y |-> RInt(100)]
    ELSE LET xs == coords_of(ents, 1)
             ys == coords_of(ents, 2)
         IN  IF xs = <<>> THEN [error |-> "ValueError"]
             ELSE [error |-> "none",
                   min_x |-> RMinSeq(xs), min_y |-> RMinSeq(ys),
                   max_x |-> RMaxSeq(xs), max_y |-> RMaxSeq(ys)]

\* Python's a / b: raises ZeroDivisionError when b is zero
ZeroDivisionError == "ZeroDivisionError"

PyDiv(a, b) == IF b[1] = 0 THEN ZeroDivisionError ELSE RDiv(a, b)

\* transform_of with the larger of the two axis scales
transform_of_MaxScale(box, target_width, target_height, margin) ==
    LET orig_width == RSub(box.max_x, box.min_x)
        orig_height == RSub(box.max_y, box.min_y)
        available_width == RSub(target_width, RMul(RInt(2), margin))
        available_height == RSub(target_height, RMul(RInt(2), margin))
        scale_x == IF RLt(RInt(0), orig_width)
                   THEN RDiv(available_width, orig_width) ELSE RInt(1)
        scale_y == IF RLt(RInt(0), orig_height)
                   THEN RDiv(available_height, orig_height) ELSE RInt(1)
        scale == RMax2(scale_x, scale_y)
    IN  [error |-> "none",
         scale_x |-> scale_x, scale_y |-> scale_y, scale |-> scale,
         offset_x |-> RAdd(margin,
             RDiv(RSub(available_width, RMul(orig_width, scale)), RInt(2))),
         offset_y |-> RAdd(margin,
             RDiv(RSub(available_height, RMul(orig_height, scale)), RInt(2)))]

\* transform_of without the "if orig_width > 0 else 1" fallbacks
transform_of_NoFallback(box, target_width, target_height, margin) ==
    LET orig_width == RSub(box.max_x, box.min_x)
        orig_height == RSub(box.max_y, box.min_y)
        available_width == RSub(target_width, RMul(RInt(2), margin))
        available_height == RSub(target_height, RMul(RInt(2), margin))
        scale_x == PyDiv(available_width, orig_width)
        scale_y == PyDiv(available_height, orig_height)
    IN  IF scale_x = ZeroDivisionError \/ scale_y = ZeroDivisionError
        THEN [error |-> ZeroDivisionError]
        ELSE LET scale == RMin2(scale_x, scale_y)
             IN  [error |-> "none",
                  scale_x |-> scale_x, scale_y |-> scale_y, scale |-> scale,
                  offset_x |-> RAdd(margin,
                      RDiv(RSub(available_width, RMul(orig_width, scale)),
                           RInt(2))),
                  offset_y |-> RAdd(margin,
                      RDiv(RSub(available_height, RMul(orig_height, scale)),
                           RInt(2)))]

\* transform_of with the offsets computed from the unscaled extent
transform_of_UnscaledOffset(box, target_width, target_height, margin) ==
    LET orig_width == RSub(box.max_x, box.min_x)
        orig_height == RSub(box.max_y, box.min_y)
        available_width == RSub(target_width, RMul(RInt(2), margin))
        available_height == RSub(target_height, RMul(RInt(2), margin))
        scale_x == IF RLt(RInt(0), orig_width)
                   THEN RDiv(available_width, orig_width) ELSE RInt(1)
        scale_y == IF RLt(RInt(0), orig_height)
                   THEN RDiv(available_height, orig_height) ELSE RInt(1)
    IN  [error |-> "none",
         scale_x |-> scale_x, scale_y |-> scale_y,
         scale |-> RMin2(scale_x, scale_y),
         offset_x |-> RAdd(margin,
             RDiv(RSub(available_width, orig_width), RInt(2))),
         offset_y |-> RAdd(margin,
             RDiv(RSub(available_height, orig_height), RInt(2)))]

\* lines 113-123 of normalize_coordinates: the transform of one call
transform_of(box, target_width, target_height, margin) ==
    LET orig_width == RSub(box.max_x, box.min_x)
        orig_height == RSub(box.max_y, box.min_y)
        available_width == RSub(target_width, RMul(RInt(2), margin))
        available_height == RSub(target_height, RMul(RInt(2), margin))
        scale_x == IF RLt(RInt(0), orig_width)
                   THEN PyDiv(available_width, orig_width) ELSE RInt(1)
        scale_y == IF RLt(RInt(0), orig_height)
                   THEN PyDiv(available_height, orig_height) ELSE RInt(1)
    IN  IF scale_x = ZeroDivisionError \/ scale_y = ZeroDivisionError
        THEN [error |-> ZeroDivisionError]
        ELSE LET scale == RMin2(scale_x, scale_y)
                 scaled_width == RMul(orig_width, scale)
                 scaled_height == RMul(orig_height, scale)
             IN  [error |-> "none",
                  scale_x |-> scale_x, scale_y |-> scale_y, scale |-> scale,
                  offset_x |-> RAdd(margin,
                      RDiv(RSub(available_width, scaled_width), RInt(2))),
                  offset_y |-> RAdd(margin,
                      RDiv(RSub(available_height, scaled_height), RInt(2)))]

\* the point mapping without the vertical flip: y is not subtracted from
\* target_height
map_point_NoFlip(pt, box, t, target_height) ==
    <<RAdd(RMul(RSub(pt[1], box.min_x), t.scale), t.offset_x),
      RAdd(RMul(RSub(pt[2], box.min_y), t.scale), t.offset_y)>>

\* the point mapping of lines 127-148
map_point(pt, box, t, target_height) ==
    <<RAdd(RMul(RSub(pt[1], box.min_x), t.scale), t.offset_x),
      RSub(target_height,
           RAdd(RMul(RSub(pt[2], box.min_y), t.scale), t.offset_y))>>

\* normalize_entity that does not copy the closed flag
normalize_entity_DropsClosed(e, box, t, target_height) ==
    IF e.type = "LINE"
    THEN [type |-> "LINE",
          start |-> map_point(e.start, box, t, target_height),
          end |-> map_point(e.end, box, t, target_height),
          layer |-> e.layer, color |-> e.color]
    ELSE [type |-> e.type,
          points |-> [k \in 1..Len(e.points) |->
                         map_point(e.points[k], box, t, target_height)],
          closed |-> FALSE,
          layer |-> e.layer, color |-> e.color]

normalize_entity(e, box, t, target_height) ==
    IF e.type = "LINE"
    THEN [type |-> "LINE",
          start |-> map_point(e.start, box, t, target_height),
          end |-> map_point(e.end, box, t, target_height),
          layer |-> e.layer, color |-> e.color]
    ELSE [type |-> e.type,
          points |-> [k \in 1..Len(e.points) |->
                         map_point(e.points[k], box, t, target_height)],
          closed |-> e.closed,
          layer |-> e.layer, color |-> e.color]

\* normalize_coordinates with the bounding box taken per entity
normalize_coordinates_PerEntity(ents, target_width, target_height, margin) ==
    LET One(e) ==
            LET box == get_bounding_box(<<e>>)
            IN  IF box.error # "none" THEN e
                ELSE normalize_entity(e, box,
                         transform_of(box, target_width, target_height, margin),
                         target_height)
    IN  IF get_bounding_box(ents).error # "none"
        THEN [error |-> get_bounding_box(ents).error, entities |-> <<>>]
        ELSE [error |-> "none",
              entities |-> [i \in 1..Len(ents) |-> One(ents[i])]]

\* normalize_coordinates(entities, target_width, target_height, margin);
\* error names the exception that leaves the call, "none" on a normal return
normalize_coordinates(ents, target_width, target_height, margin) ==
    LET box == get_bounding_box(ents)
    IN  IF box.error # "none" THEN [error |-> box.error, entities |-> <<>>]
        ELSE LET t == transform_of(box, target_width, target_height, margin)
             IN  IF t.error # "none"
                 THEN [error |-> t.error, entities |-> <<>>]
                 ELSE [error |-> "none",
                       entities |-> [i \in 1..Len(ents) |->
                           normalize_entity(ents[i], box, t, target_height)]]

\* every point of an entity list, in order (start, end for a LINE)
RECURSIVE points_of(_)
points_of(ents) ==
    IF ents = <<>> THEN <<>>
    ELSE LET e == Head(ents)
         IN  (IF e.type = "LINE" THEN <<e.start, e.end>> ELSE e.points)
             \o points_of(Tail(ents))

(***************************************************************************)
(* Source documents: what ezdxf.readfile yields for the files of the model. *)
(***************************************************************************)
InDir == "/in"

DxfFile(base) == [dir |-> InDir, base |-> base, ext |-> ".dxf"]

Corrupt == DxfFile("corrupt")   \* ezdxf.readfile raises
Blank == DxfFile("blank")       \* no LINE / polyline / arc / circle in it
Frame == DxfFile("frame")       \* a segment and a closed polyline
Hollow == DxfFile("hollow")     \* one LWPOLYLINE without vertices
Notes == [dir |-> InDir, base |-> "notes", ext |-> ".txt"]

DxfCatalog == {Corrupt, Blank, Frame, Hollow}
Selectable == DxfCatalog \cup {Notes}

TextPrimitive == [dxftype |-> "TEXT", layer |-> "0"]

\* ezdxf.readfile(path): raised, or the primitives of the modelspace
readfile(path) ==
    IF path = Blank THEN [raised |-> FALSE, modelspace |-> <<TextPrimitive>>]
    ELSE IF path = Frame
    THEN [raised |-> FALSE,
          modelspace |->
            <<[dxftype |-> "LINE", start |-> Pt(0, 0), end |-> Pt(4, 0),
               layer |-> "0"],
              TextPrimitive,
              [dxftype |-> "LWPOLYLINE",
               points |-> <<Pt(4, 0), Pt(4, 2), Pt(0, 2)>>,
               closed |-> TRUE, layer |-> "1", color |-> 1]>>]
    ELSE IF path = Hollow
    THEN [raised |-> FALSE,
          modelspace |->
            <<[dxftype |-> "LWPOLYLINE", points |-> <<>>, closed |-> FALSE,
               layer |-> "0", color |-> 3]>>]
    ELSE [raised |-> TRUE]

(***************************************************************************)
(* DXFToSVG: src/dxf2svg_core.py                                           *)
(***************************************************************************)
None == [loaded |-> FALSE]

\* load_dxf: the document, or None when ezdxf.readfile raises
load_dxf(dxf_path) ==
    LET r == readfile(dxf_path)
    IN  IF r.raised THEN None
        ELSE [loaded |-> TRUE, modelspace |-> r.modelspace]

\* getattr(entity.dxf, 'color', 7)
color_of(prim) == IF "color" \in DOMAIN prim THEN prim.color ELSE DefaultColor

\* math.pi lies strictly between these two rationals
PiLow == <<31415, 10000>>
PiHigh == <<31416, 10000>>

\* int(x) for a float x: truncation toward zero
Trunc(q) == IF q[1] >= 0 THEN q[1] \div q[2] ELSE -((-q[1]) \div q[2])

\* An angle in radians is held as its rational multiple of pi.
\* math.radians(degrees)
radians(deg) == RDiv(deg, RInt(180))

TwoPi == RInt(2)

MinArcSegments == 8
CircleSegments == 32

\* int(angle * radius / 10) for an angle given as a multiple of pi; the
\* inputs of the model keep the product away from an integer, so that the
\* two bounds of pi give the same integer
arc_length_tenths(angle, radius) ==
    Trunc(RDiv(RMul(RMul(angle, PiLow), radius), RInt(10)))

\* the point (center.x + radius * cos(angle), center.y + radius * sin(angle))
OnCircle(center, radius, angle) ==
    [center |-> center, radius |-> radius, angle |-> angle]

\* lines 59-60: the end angle, a full turn added when it is below the start
end_angle_of(start_angle, end_angle) ==
    IF RLt(end_angle, start_angle) THEN RAdd(end_angle, TwoPi) ELSE end_angle

\* max(8, n)
num_segments_of(n) == IF n > MinArcSegments THEN n ELSE MinArcSegments

\* line 61: num_segments from the two angles and the radius
arc_sweep_of(start_angle, end_angle, radius) ==
    [start_angle |-> start_angle, end_angle |-> end_angle,
     num_segments |->
         num_segments_of(arc_length_tenths(RSub(end_angle, start_angle),
                                           radius))]

\* lines 57-61: the angles of an ARC and its number of segments
arc_sweep(entity) ==
    arc_sweep_of(radians(entity.start_angle),
                 end_angle_of(radians(entity.start_angle),
                              radians(entity.end_angle)),
                 entity.radius)

\* lines 63-68 and 81-86: num_segments + 1 points from start_angle on
sample_points(center, radius, start_angle, angle_step, num_segments) ==
    [k \in 1..(num_segments + 1) |->
       OnCircle(center, radius,
                RAdd(start_angle, RMul(RInt(k - 1), angle_step)))]

\* line 62: angle_step, and the points of the arc
arc_points_of(entity, a) ==
    sample_points(entity.center, entity.radius, a.start_angle,
                  RDiv(RSub(a.end_angle, a.start_angle),
                       RInt(a.num_segments)),
                  a.num_segments)

\* lines 57-68: the points of a flattened ARC
arc_points(entity) == arc_points_of(entity, arc_sweep(entity))

\* lines 79-86: the points of a flattened CIRCLE
circle_points(entity) ==
    sample_points(entity.center, entity.radius, RInt(0),
                  RDiv(TwoPi, RInt(CircleSegments)), CircleSegments)

\* the for loop of extract_all_lines; a primitive of any other dxftype
\* adds nothing
RECURSIVE extract_from(_)
extract_from(msp) ==
    IF msp = <<>> THEN <<>>
    ELSE LET entity == Head(msp)
             rest == extract_from(Tail(msp))
         IN  IF entity.dxftype = "LINE"
             THEN <<[type |-> "LINE", start |-> entity.start,
                     end |-> entity.end, layer |-> entity.layer,
                     color |-> color_of(entity)]>> \o rest
             ELSE IF entity.dxftype \in {"LWPOLYLINE", "POLYLINE"}
             THEN <<[type |-> entity.dxftype, points |-> entity.points,
                     closed |-> entity.closed, layer |-> entity.layer,
                     color |-> color_of(entity)]>> \o rest
             ELSE IF entity.dxftype = "ARC"
             THEN <<[type |-> "ARC_SEGMENTS", points |-> arc_points(entity),
                     closed |-> FALSE, layer |-> entity.layer,
                     color |-> color_of(entity)]>> \o rest
             ELSE IF entity.dxftype = "CIRCLE"
             THEN <<[type |-> "CIRCLE_SEGMENTS",
                     points |-> circle_points(entity),
                     closed |-> TRUE, layer |-> entity.layer,
                     color |-> color_of(entity)]>> \o rest
             ELSE rest

RecognizedTypes == {"LINE", "LWPOLYLINE", "POLYLINE", "ARC", "CIRCLE"}

\* extract_all_lines with the loop left at the first primitive of another type
extract_all_lines_StopsAtUnknown(doc) ==
    LET m == doc.modelspace
        unknown == {k \in DOMAIN m : m[k].dxftype \notin RecognizedTypes}
        first == IF unknown = {} THEN Len(m) + 1
                 ELSE CHOOSE k \in unknown : \A j \in unknown : k <= j
    IN  extract_from(SubSeq(m, 1, first - 1))

extract_all_lines(doc) == extract_from(doc.modelspace)

\* get_color_by_index: color_map.get(color_index, "#000000")
color_map ==
    <<"#FF0000", "#FFFF00", "#00FF00", "#00FFFF", "#0000FF", "#FF00FF",
      "#FFFFFF", "#808080", "#C0C0C0", "#800000", "#808000", "#008000",
      "#008080", "#000080", "#800080">>

\* get_color_by_index with white, the colour of index 7, as the default
get_color_by_index_WhiteDefault(color_index) ==
    IF color_index \in DOMAIN color_map THEN color_map[color_index]
    ELSE "#FFFFFF"

get_color_by_index(color_index) ==
    IF color_index \in DOMAIN color_map THEN color_map[color_index]
    ELSE "#000000"

\* f"{v:.2f}": the decimal with two fraction digits nearest to v, written
\* here as its number of hundredths
Fmt2(v) == Round(RMul(v, RInt(100)))

\* entities_to_svg_elements leaving the loop at an entity without points
RECURSIVE entities_to_svg_elements_StopsAtEmpty(_, _)
entities_to_svg_elements_StopsAtEmpty(ents, stroke) ==
    IF ents = <<>> THEN <<>>
    ELSE LET entity == Head(ents)
             rest == entities_to_svg_elements_StopsAtEmpty(Tail(ents), stroke)
             color == get_color_by_index(entity.color)
         IN  IF entity.type = "LINE"
             THEN <<[tag |-> "line",
                     x1 |-> Fmt2(entity.start[1]), y1 |-> Fmt2(entity.start[2]),
                     x2 |-> Fmt2(entity.end[1]), y2 |-> Fmt2(entity.end[2]),
                     stroke |-> color, stroke_width |-> stroke]>> \o rest
             ELSE IF entity.points = <<>> THEN <<>>
             ELSE <<[tag |-> "path",
                     d |-> [k \in 1..Len(entity.points) |->
                              [cmd |-> IF k = 1 THEN "M" ELSE "L",
                               x |-> Fmt2(entity.points[k][1]),
                               y |-> Fmt2(entity.points[k][2])]]
                           \o (IF entity.closed THEN <<[cmd |-> "Z"]>>
                               ELSE <<>>),
                     stroke |-> color, stroke_width |-> stroke,
                     fill |-> "none"]>> \o rest

\* entities_to_svg_elements
RECURSIVE entities_to_svg_elements(_, _)
entities_to_svg_elements(ents, stroke) ==
    IF ents = <<>> THEN <<>>
    ELSE LET entity == Head(ents)
             rest == entities_to_svg_elements(Tail(ents), stroke)
             color == get_color_by_index(entity.color)
         IN  IF entity.type = "LINE"
             THEN <<[tag |-> "line",
                     x1 |-> Fmt2(entity.start[1]), y1 |-> Fmt2(entity.start[2]),
                     x2 |-> Fmt2(entity.end[1]), y2 |-> Fmt2(entity.end[2]),
                     stroke |-> color, stroke_width |-> stroke]>> \o rest
             ELSE IF entity.points = <<>> THEN rest
             ELSE <<[tag |-> "path",
                     d |-> [k \in 1..Len(entity.points) |->
                              [cmd |-> IF k = 1 THEN "M" ELSE "L",
                               x |-> Fmt2(entity.points[k][1]),
                               y |-> Fmt2(entity.points[k][2])]]
                           \o (IF entity.closed THEN <<[cmd |-> "Z"]>>
                               ELSE <<>>),
                     stroke |-> color, stroke_width |-> stroke,
                     fill |-> "none"]>> \o rest

\* create_svg: the svg element with its attributes and children
create_svg(ents, width, height, stroke) ==
    [width |-> width, height |-> height, viewBox |-> <<0, 0, width, height>>,
     children |-> entities_to_svg_elements(ents, stroke)]

\* margin=50, the default of normalize_coordinates used by the converter
Margin == 50

NonePath == [dir |-> "None", base |-> "None", ext |-> "None"]

StageOrder == <<"load_dxf", "extract_all_lines", "normalize_coordinates",
                "create_svg", "write">>

(***************************************************************************)
(* Entry texts and their parsing by int() and float().                     *)
(***************************************************************************)
Digits == <<"0", "1", "2", "3", "4", "5", "6", "7", "8", "9">>

IsDigit(c) == \E i \in DOMAIN Digits : Digits[i] = c

DigitValue(c) == (CHOOSE i \in DOMAIN Digits : Digits[i] = c) - 1

\* the value of a string of digits
RECURSIVE DecimalValue(_)
DecimalValue(cs) ==
    IF cs = <<>> THEN 0
    ELSE 10 * DecimalValue(SubSeq(cs, 1, Len(cs) - 1)) + DigitValue(cs[Len(cs)])

AllDigits(cs) == cs # <<>> /\ \A k \in DOMAIN cs : IsDigit(cs[k])

Unsigned(cs) == IF cs # <<>> /\ cs[1] \in {"-", "+"} THEN Tail(cs) ELSE cs

SignOf(cs) == IF cs # <<>> /\ cs[1] = "-" THEN -1 ELSE 1

\* int(text): an optional sign and digits, ValueError otherwise
ParseInt(cs) ==
    IF AllDigits(Unsigned(cs))
    THEN [ok |-> TRUE, value |-> SignOf(cs) * DecimalValue(Unsigned(cs))]
    ELSE [ok |-> FALSE]

\* float(text) for texts "digits" and "digits.digits" with an optional sign
ParseFloat(cs) ==
    LET body == Unsigned(cs)
        dots == {k \in DOMAIN body : body[k] = "."}
    IN  IF AllDigits(body)
        THEN [ok |-> TRUE, value |-> RInt(SignOf(cs) * DecimalValue(body))]
        ELSE IF Cardinality(dots) = 1
        THEN LET k == CHOOSE d \in dots : TRUE
                 whole == SubSeq(body, 1, k - 1)
                 frac == SubSeq(body, k + 1, Len(body))
             IN  IF AllDigits(whole) /\ AllDigits(frac)
                 THEN [ok |-> TRUE,
                       value |-> RMul(RInt(SignOf(cs)),
                                   RAdd(RInt(DecimalValue(whole)),
                                        Rat(DecimalValue(frac),
                                            10 ^ Len(frac))))]
                 ELSE [ok |-> FALSE]
        ELSE [ok |-> FALSE]

(***************************************************************************)
(* State.                                                                  *)
(***************************************************************************)
VARIABLES
    entities,      \* SpecGroup: argument of group_lines_and_polylines
    tol,           \* SpecGroup: its tolerance argument
    groups,        \* SpecGroup: its return value
    gpc,           \* SpecGroup: "input" before the call, "done" after
    n_entities,    \* SpecNorm: argument of normalize_coordinates
    target,        \* SpecNorm: [target_width, target_height, margin]
    normalized,    \* SpecNorm: outcome of the call
    npc,           \* SpecNorm: "input" before the call, "done" after,
                   \* "again" and "third" after the further calls
    renormalized,  \* SpecNorm: outcome of the second call, made on
                   \* `normalized`, then of the third, made on the second's
    msp,           \* SpecExtract: the primitives of the modelspace
    line_entities, \* SpecExtract: return value of extract_all_lines
    xpc,           \* SpecExtract: "input" before the call, "done" after
    e_entities,    \* SpecEmit: argument of entities_to_svg_elements
    svg_elements,  \* SpecEmit: its return value
    epc,           \* SpecEmit: "input" before the call, "done" after
    svg_width,     \* converter.svg_width
    svg_height,    \* converter.svg_height
    stroke_width,  \* converter.stroke_width
    stroke_color,  \* converter.stroke_color
    dxf_paths,     \* DXFToSVGGUI.dxf_paths (the listbox shows the same list)
    output_dir,    \* DXFToSVGGUI.output_dir
    convert_button,\* state of the convert button
    open_button,   \* state of the open-image / open-folder buttons
    status_var,    \* status bar text
    log_text,      \* lines of the log widget
    worker,        \* "none", or "running" while the batch thread lives
    iter,          \* position of the worker's list iterator
    after_queue,   \* callbacks scheduled with root.after and not yet run
    files,         \* output files on disk: set of [path, content]
    call,          \* the latest convert_dxf_to_svg call, its outcome, and
                   \* whether its open(output_path, 'w') replaced a file
    edited,        \* dxf_paths was changed since the worker was last started
    batch          \* SpecTracked: while the worker runs, dxf_paths as it
                   \* was when start_conversion launched it

groupVars == <<entities, tol, groups, gpc>>
normVars == <<n_entities, target, normalized, npc, renormalized>>
converterVars == <<svg_width, svg_height, stroke_width, stroke_color>>
widgetVars == <<convert_button, open_button, status_var, log_text>>
workerVars == <<worker, iter, after_queue, files, call, edited>>
guiVars == <<converterVars, dxf_paths, output_dir, widgetVars, workerVars,
            batch>>
extractVars == <<msp, line_entities, xpc>>
emitVars == <<e_entities, svg_elements, epc>>
vars == <<groupVars, normVars, extractVars, emitVars, guiVars>>

NoCall == [made |-> FALSE]

\* DXFToSVG.__init__ and DXFToSVGGUI.__init__ / create_widgets
GuiInit ==
    /\ svg_width = 800
    /\ svg_height = 600
    /\ stroke_width = RInt(1)
    /\ stroke_color = "#000000"
    /\ dxf_paths = <<>>
    /\ output_dir = ""
    /\ convert_button = "normal"
    /\ open_button = "disabled"
    /\ status_var = "ready"
    /\ log_text = <<>>
    /\ worker = "none"
    /\ iter = 0
    /\ after_queue = <<>>
    /\ files = {}
    /\ call = NoCall
    /\ edited = FALSE
    /\ batch = <<>>

GroupIdle ==
    /\ entities = <<>>
    /\ tol = RInt(1)
    /\ groups = <<>>
    /\ gpc = "unused"

ExtractIdle ==
    /\ msp = <<>>
    /\ line_entities = <<>>
    /\ xpc = "unused"

EmitIdle ==
    /\ e_entities = <<>>
    /\ svg_elements = <<>>
    /\ epc = "unused"

NormIdle ==
    /\ n_entities = <<>>
    /\ target = [target_width |-> RInt(0), target_height |-> RInt(0),
                 margin |-> RInt(0)]
    /\ normalized = [error |-> "none", entities |-> <<>>]
    /\ npc = "unused"
    /\ renormalized = [error |-> "none", entities |-> <<>>]

(***************************************************************************)
(* DXFToSVG.convert_dxf_to_svg: src/dxf2svg_core.py                        *)
(***************************************************************************)
\* convert_dxf_to_svg without the "if not entities" return (lines 216-217)
convert_dxf_to_svg_NoEmptyCheck(dxf_path, output_path, width, height, stroke, write_ok) ==
    LET doc == load_dxf(dxf_path)
    IN  IF doc = None
        THEN [raised |-> FALSE, success |-> FALSE, message |-> "load_failed",
              trace |-> SubSeq(StageOrder, 1, 1), written |-> FALSE]
        ELSE
        LET norm == normalize_coordinates(extract_all_lines(doc), RInt(width),
                                          RInt(height), RInt(Margin))
        IN  IF norm.error # "none"
            THEN [raised |-> TRUE, error |-> norm.error,
                  trace |-> SubSeq(StageOrder, 1, 3), written |-> FALSE]
            ELSE IF write_ok
            THEN [raised |-> FALSE, success |-> TRUE, message |-> "saved",
                  trace |-> StageOrder, written |-> TRUE,
                  output_path |-> output_path,
                  content |-> create_svg(norm.entities, width, height, stroke)]
            ELSE [raised |-> FALSE, success |-> FALSE,
                  message |-> "save_failed", trace |-> StageOrder,
                  written |-> FALSE]

\* convert_dxf_to_svg on a converter that keeps the extracted entities of
\* its previous call and extends them instead of starting from an empty list
convert_dxf_to_svg_KeepsEntities(dxf_path, output_path, width, height, stroke, write_ok) ==
    LET doc == load_dxf(dxf_path)
        kept == IF call.made /\ load_dxf(call.dxf_path) # None
                THEN extract_all_lines(load_dxf(call.dxf_path)) ELSE <<>>
    IN  IF doc = None
        THEN [raised |-> FALSE, success |-> FALSE, message |-> "load_failed",
              trace |-> SubSeq(StageOrder, 1, 1), written |-> FALSE]
        ELSE
        LET ents == kept \o extract_all_lines(doc)
        IN  IF ents = <<>>
            THEN [raised |-> FALSE, success |-> FALSE, message |-> "no_lines",
                  trace |-> SubSeq(StageOrder, 1, 2), written |-> FALSE]
            ELSE
            LET norm == normalize_coordinates(ents, RInt(width), RInt(height),
                                              RInt(Margin))
            IN  IF norm.error # "none"
                THEN [raised |-> TRUE, error |-> norm.error,
                      trace |-> SubSeq(StageOrder, 1, 3), written |-> FALSE]
                ELSE IF write_ok
                THEN [raised |-> FALSE, success |-> TRUE,
                      message |-> "saved", trace |-> StageOrder,
                      written |-> TRUE, output_path |-> output_path,
                      content |-> create_svg(norm.entities, width, height,
                                             stroke)]
                ELSE [raised |-> FALSE, success |-> FALSE,
                      message |-> "save_failed", trace |-> StageOrder,
                      written |-> FALSE]

\* convert_dxf_to_svg: the outcome of one call.  trace lists the stages the
\* call entered; write_ok tells whether open()/write() succeed.
convert_dxf_to_svg(dxf_path, output_path, width, height, stroke, write_ok) ==
    LET doc == load_dxf(dxf_path)
    IN  IF doc = None
        THEN [raised |-> FALSE, success |-> FALSE, message |-> "load_failed",
              trace |-> SubSeq(StageOrder, 1, 1), written |-> FALSE]
        ELSE
        LET ents == extract_all_lines(doc)
        IN  IF ents = <<>>
            THEN [raised |-> FALSE, success |-> FALSE, message |-> "no_lines",
                  trace |-> SubSeq(StageOrder, 1, 2), written |-> FALSE]
            ELSE
            LET norm == normalize_coordinates(ents, RInt(width), RInt(height),
                                              RInt(Margin))
            IN  IF norm.error # "none"
                THEN [raised |-> TRUE, error |-> norm.error,
                      trace |-> SubSeq(StageOrder, 1, 3), written |-> FALSE]
                ELSE
                LET svg == create_svg(norm.entities, width, height, stroke)
                    out == IF output_path = NonePath
                           THEN [dir |-> dxf_path.dir, base |-> dxf_path.base,
                                 ext |-> ".svg"]
                           ELSE output_path
                IN  IF write_ok
                    THEN [raised |-> FALSE, success |-> TRUE,
                          message |-> "saved", trace |-> StageOrder,
                          written |-> TRUE, output_path |-> out,
                          content |-> svg]
                    ELSE [raised |-> FALSE, success |-> FALSE,
                          message |-> "save_failed", trace |-> StageOrder,
                          written |-> FALSE]

(***************************************************************************)
(* SpecGroup: group_lines_and_polylines on bounded inputs.                 *)
(***************************************************************************)
MaxEntities == 3

\* endpoints of the input segments: with tolerance 4 the first two share a
\* key, with tolerance 1 all four keys differ
GroupPoints == <<Pt(0, 0), Pt(2, 0), Pt(3, 2), Pt(0, 3)>>

\* with tolerance 5 the keys are those of tolerance 4, and the second and
\* third point are less than half the tolerance apart on both axes
Tols == {RInt(1), RInt(4), RInt(5)}

\* the input segments, as <<start, end>> indices into GroupPoints: a chain
\* 1-2-3, its closing edge in both directions, a reversed duplicate, a
\* segment of zero length, and the segments 2-4 and 4-3 (2-4 crosses 1-3)
GroupSegments ==
    {<<1, 2>>, <<2, 1>>, <<2, 3>>, <<3, 1>>, <<1, 3>>, <<2, 4>>, <<4, 3>>,
     <<1, 1>>}

GroupEntities ==
    {LineEntity(GroupPoints[p[1]], GroupPoints[p[2]]) : p \in GroupSegments}
    \cup {PointsEntity(t, <<Pt(0, 0), Pt(2, 0)>>, t = "CIRCLE_SEGMENTS") :
            t \in {"POLYLINE", "LWPOLYLINE", "ARC_SEGMENTS", "CIRCLE_SEGMENTS"}}

InitGroup ==
    /\ entities \in SeqsUpTo(GroupEntities, MaxEntities)
    /\ tol \in Tols
    /\ groups = <<>>
    /\ gpc = "input"
    /\ NormIdle
    /\ ExtractIdle
    /\ EmitIdle
    /\ GuiInit

CallGroup ==
    /\ gpc = "input"
    /\ groups' = group_lines_and_polylines(entities, tol)
    /\ gpc' = "done"
    /\ UNCHANGED <<entities, tol, normVars, extractVars, emitVars, guiVars>>

NextGroup == CallGroup

SpecGroup == InitGroup /\ [][NextGroup]_vars

(***************************************************************************)
(* SpecNorm: normalize_coordinates on bounded inputs.                      *)
(***************************************************************************)
MaxNormEntities == 2
MaxPoints == 2

\* a horizontal, a vertical and a diagonal segment and one of zero length
NormSegments ==
    {LineEntity(Pt(-1, 0), Pt(1, 0)), LineEntity(Pt(-1, 0), Pt(-1, 1)),
     LineEntity(Pt(1, 0), Pt(-1, 1)), LineEntity(Pt(-1, 0), Pt(-1, 0))}

\* the vertices of the input polylines (a polyline may have no vertex)
NormVertices == {Pt(1, 0), Pt(-1, 1)}

\* a closed polyline on a layer and with a colour of its own
Outline ==
    [type |-> "POLYLINE", points |-> <<Pt(1, 0), Pt(-1, 1)>>,
     closed |-> TRUE, layer |-> "walls", color |-> 1]

NormEntities ==
    NormSegments
    \cup {PointsEntity("LWPOLYLINE", ps, FALSE) :
            ps \in SeqsUpTo(NormVertices, MaxPoints)}
    \cup {Outline}

\* <<W, H, m>>: x-bound, y-bound and fractional scales, a canvas equal to
\* twice the margin and one smaller than twice the margin
Targets == {<<8, 6, 1>>, <<8, 3, 1>>, <<7, 6, 2>>, <<2, 6, 1>>, <<8, 1, 1>>}

InitNorm ==
    /\ n_entities \in SeqsUpTo(NormEntities, MaxNormEntities)
    /\ \E t \in Targets :
         target = [target_width |-> RInt(t[1]), target_height |-> RInt(t[2]),
                   margin |-> RInt(t[3])]
    /\ normalized = [error |-> "none", entities |-> <<>>]
    /\ npc = "input"
    /\ renormalized = [error |-> "none", entities |-> <<>>]
    /\ GroupIdle
    /\ ExtractIdle
    /\ EmitIdle
    /\ GuiInit

CallNormalize ==
    /\ npc = "input"
    /\ normalized' = normalize_coordinates(n_entities, target.target_width,
                                           target.target_height, target.margin)
    /\ npc' = "done"
    /\ UNCHANGED <<n_entities, target, renormalized, groupVars, extractVars,
                   emitVars, guiVars>>

\* normalize_coordinates called on what the first call returned, with the
\* same target_width, target_height and margin
CallAgain ==
    /\ npc = "done"
    /\ normalized.error = "none"
    /\ renormalized' = normalize_coordinates(normalized.entities,
                                             target.target_width,
                                             target.target_height,
                                             target.margin)
    /\ npc' = "again"
    /\ UNCHANGED <<n_entities, target, normalized, groupVars, extractVars,
                   emitVars, guiVars>>

\* normalize_coordinates called a third time, on what the second call
\* returned, with the same target_width, target_height and margin
CallThird ==
    /\ npc = "again"
    /\ renormalized.error = "none"
    /\ renormalized' = normalize_coordinates(renormalized.entities,
                                             target.target_width,
                                             target.target_height,
                                             target.margin)
    /\ npc' = "third"
    /\ UNCHANGED <<n_entities, target, normalized, groupVars, extractVars,
                   emitVars, guiVars>>

NextNorm == CallNormalize \/ CallAgain \/ CallThird

SpecNorm == InitNorm /\ [][NextNorm]_vars

(***************************************************************************)
(* SpecExtract: extract_all_lines on bounded modelspaces.                  *)
(***************************************************************************)
MaxPrimitives == 2

\* an ARC primitive about the origin (angles in degrees, as ezdxf gives them)
Arc(radius, start_angle, end_angle) ==
    [dxftype |-> "ARC", center |-> Pt(0, 0), radius |-> RInt(radius),
     start_angle |-> RInt(start_angle), end_angle |-> RInt(end_angle),
     layer |-> "0"]

\* a quarter arc of radius 50 and one of radius 100, an arc through angle 0
\* (end angle below start angle), and an arc whose two angles are equal
ArcPrimitives ==
    {Arc(50, 0, 90), Arc(100, 0, 90), Arc(50, 270, 90), Arc(50, 90, 90)}

Primitives ==
    {[dxftype |-> "LINE", start |-> Pt(0, 0), end |-> Pt(4, 0),
      layer |-> "0"],
     [dxftype |-> "LWPOLYLINE", points |-> <<Pt(4, 0), Pt(4, 2)>>,
      closed |-> FALSE, layer |-> "1", color |-> 1],
     [dxftype |-> "LWPOLYLINE", points |-> <<>>, closed |-> FALSE,
      layer |-> "0", color |-> 3],
     [dxftype |-> "POLYLINE", points |-> <<Pt(0, 0), Pt(4, 2), Pt(0, 2)>>,
      closed |-> TRUE, layer |-> "2", color |-> 5],
     [dxftype |-> "CIRCLE", center |-> Pt(1, 1), radius |-> RInt(10),
      layer |-> "3"],
     [dxftype |-> "SPLINE", layer |-> "1"],
     TextPrimitive}
    \cup ArcPrimitives

InitExtract ==
    /\ msp \in SeqsUpTo(Primitives, MaxPrimitives)
    /\ line_entities = <<>>
    /\ xpc = "input"
    /\ GroupIdle
    /\ NormIdle
    /\ EmitIdle
    /\ GuiInit

CallExtract ==
    /\ xpc = "input"
    /\ line_entities' = extract_all_lines([loaded |-> TRUE, modelspace |-> msp])
    /\ xpc' = "done"
    /\ UNCHANGED <<msp, groupVars, normVars, emitVars, guiVars>>

NextExtract == CallExtract

SpecExtract == InitExtract /\ [][NextExtract]_vars

(***************************************************************************)
(* SpecEmit: entities_to_svg_elements on bounded entity lists.             *)
(***************************************************************************)
MaxEmit == 3
MaxColorIndex == 17

\* a segment, polylines without points (open and closed), with one point and
\* with two points (open and closed); every drawn entity has points of its own
EmitEntities ==
    {LineEntity(Pt(0, 0), Pt(4, 0)),
     PointsEntity("LWPOLYLINE", <<>>, FALSE),
     PointsEntity("POLYLINE", <<>>, TRUE),
     PointsEntity("ARC_SEGMENTS", <<Pt(1, 1)>>, FALSE),
     PointsEntity("LWPOLYLINE", <<Pt(4, 0), Pt(4, 2)>>, FALSE),
     PointsEntity("POLYLINE", <<Pt(0, 2), Pt(2, 2)>>, TRUE),
     PointsEntity("CIRCLE_SEGMENTS", <<Pt(3, 1), Pt(5, 1), Pt(3, 1)>>, TRUE)}

\* the colour indices entities may carry
ColorIndices == (-2..MaxColorIndex) \cup {99}

ColouredLine(c) ==
    [type |-> "LINE", start |-> Pt(0, 0), end |-> Pt(4, 0),
     layer |-> DefaultLayer, color |-> c]

InitEmit ==
    /\ e_entities \in SeqsUpTo(EmitEntities, MaxEmit)
                      \cup {<<ColouredLine(c)>> : c \in ColorIndices}
    /\ svg_elements = <<>>
    /\ epc = "input"
    /\ GroupIdle
    /\ NormIdle
    /\ ExtractIdle
    /\ GuiInit

CallEmit ==
    /\ epc = "input"
    /\ svg_elements' = entities_to_svg_elements(e_entities, stroke_width)
    /\ epc' = "done"
    /\ UNCHANGED <<e_entities, groupVars, normVars, extractVars, guiVars>>

NextEmit == CallEmit

SpecEmit == InitEmit /\ [][NextEmit]_vars

(***************************************************************************)
(* SpecPure: either of the two functions above on its bounded inputs.      *)
(***************************************************************************)
InitPure == InitGroup \/ InitNorm

NextPure == NextGroup \/ NextNorm

SpecPure == InitPure /\ [][NextPure]_vars

(***************************************************************************)
(* Spec: the batch GUI (src/dxf2svg_gui.py) and its worker thread.         *)
(***************************************************************************)
MaxFiles == 2

\* what the user may have typed into the three entries (characters)
WidthTexts == {<<"8", "0", "0">>, <<"0">>, <<"8", "o">>}
HeightTexts == {<<"6", "0", "0">>, <<"6", "o">>}
StrokeTexts == {<<"1">>, <<"1", "x">>}

\* f.lower() on the extensions of the model
Lower(ext) == IF ext = ".DXF" THEN ".dxf" ELSE ext

\* the loop of browse_dxf_files (lines 76-79)
RECURSIVE add_files(_, _)
add_files(paths, filenames) ==
    IF filenames = <<>> THEN paths
    ELSE LET f == Head(filenames)
             present == \E k \in DOMAIN paths : paths[k] = f
         IN  add_files(IF ~present /\ Lower(f.ext) = ".dxf"
                       THEN Append(paths, f) ELSE paths,
                       Tail(filenames))

\* the loop of remove_selected_files: del self.dxf_paths[idx] for the
\* selected indices, highest first
RECURSIVE remove_indices(_, _)
remove_indices(paths, selected) ==
    IF selected = {} THEN paths
    ELSE LET idx == CHOOSE k \in selected : \A j \in selected : j <= k
         IN  remove_indices(SubSeq(paths, 1, idx - 1)
                              \o SubSeq(paths, idx + 1, Len(paths)),
                            selected \ {idx})

\* the selections the file dialog may return (a selection of several files
\* has the effect of selecting them one after the other)
Selections == {<<f>> : f \in Selectable}

\* browse_dxf_files with the dialog returning `filenames`
browse_dxf_files(filenames) ==
    /\ Len(add_files(dxf_paths, filenames)) <= MaxFiles
    /\ dxf_paths' = add_files(dxf_paths, filenames)
    /\ output_dir' = filenames[1].dir
    /\ edited' = (edited \/ dxf_paths' # dxf_paths)
    /\ UNCHANGED <<converterVars, widgetVars, worker, iter, after_queue,
                   files, call>>

\* remove_selected_files with `selected` the listbox selection
remove_selected_files(selected) ==
    /\ selected # {}
    /\ dxf_paths' = remove_indices(dxf_paths, selected)
    /\ edited' = TRUE
    /\ UNCHANGED <<converterVars, output_dir, widgetVars, worker, iter,
                   after_queue, files, call>>

\* start_conversion that starts the thread without disabling the convert
\* button (line 110 left out)
start_conversion_LeavesButton(w, h, sw) ==
    /\ convert_button = "normal"
    /\ IF dxf_paths = <<>> \/ output_dir = ""
       THEN UNCHANGED <<converterVars, widgetVars, worker, iter, edited>>
       ELSE IF ~ParseInt(w).ok
       THEN UNCHANGED <<converterVars, widgetVars, worker, iter, edited>>
       ELSE IF ~ParseInt(h).ok
       THEN /\ svg_width' = ParseInt(w).value
            /\ UNCHANGED <<svg_height, stroke_width, stroke_color, widgetVars,
                           worker, iter, edited>>
       ELSE IF ~ParseFloat(sw).ok
       THEN /\ svg_width' = ParseInt(w).value
            /\ svg_height' = ParseInt(h).value
            /\ UNCHANGED <<stroke_width, stroke_color, widgetVars, worker, iter,
                           edited>>
       ELSE /\ svg_width' = ParseInt(w).value
            /\ svg_height' = ParseInt(h).value
            /\ stroke_width' = ParseFloat(sw).value
            /\ log_text' = <<>>
            /\ open_button' = "disabled"
            /\ status_var' = "converting"
            /\ worker' = "running"
            /\ iter' = 0
            /\ edited' = FALSE
            /\ UNCHANGED <<stroke_color, convert_button>>
    /\ UNCHANGED <<dxf_paths, output_dir, after_queue, files, call>>

\* start_conversion, a click on the enabled convert button, with the
\* contents of the width, height and stroke entries at that moment
start_conversion(w, h, sw) ==
    /\ convert_button = "normal"
    /\ IF dxf_paths = <<>> \/ output_dir = ""
       THEN UNCHANGED <<converterVars, widgetVars, worker, iter, edited>>
       ELSE IF ~ParseInt(w).ok
       THEN UNCHANGED <<converterVars, widgetVars, worker, iter, edited>>
       ELSE IF ~ParseInt(h).ok
       THEN /\ svg_width' = ParseInt(w).value
            /\ UNCHANGED <<svg_height, stroke_width, stroke_color, widgetVars,
                           worker, iter, edited>>
       ELSE IF ~ParseFloat(sw).ok
       THEN /\ svg_width' = ParseInt(w).value
            /\ svg_height' = ParseInt(h).value
            /\ UNCHANGED <<stroke_width, stroke_color, widgetVars, worker, iter,
                           edited>>
       ELSE /\ svg_width' = ParseInt(w).value
            /\ svg_height' = ParseInt(h).value
            /\ stroke_width' = ParseFloat(sw).value
            /\ log_text' = <<>>
            /\ convert_button' = "disabled"
            /\ open_button' = "disabled"
            /\ status_var' = "converting"
            /\ worker' = "running"
            /\ iter' = 0
            /\ edited' = FALSE
            /\ UNCHANGED stroke_color
    /\ UNCHANGED <<dxf_paths, output_dir, after_queue, files, call>>

\* the log lines of one conversion
StartLine(path) == [kind |-> "start", path |-> path]
ResultLine(r) ==
    IF r.raised THEN [kind |-> "error", message |-> r.error]
    ELSE [kind |-> IF r.success THEN "ok" ELSE "fail", message |-> r.message]

\* leaving the for loop on a failure result as well as on an exception
leaves_loop_OnFailure(r) == r.raised \/ ~r.success

\* what takes the worker out of the for loop before the list is exhausted:
\* an exception (the except branch); a (False, message) result is only logged
leaves_loop(r) == r.raised

\* perform_batch_conversion, one step of the worker thread: the next
\* iteration of the for loop, or the code after the loop, or the except
\* branch; each ends in the finally clause when the thread is over
perform_batch_conversion ==
    /\ worker = "running"
    /\ IF iter < Len(dxf_paths)
       THEN \E write_ok \in BOOLEAN :
              LET dxf_path == dxf_paths[iter + 1]
                  output_svg == [dir |-> output_dir, base |-> dxf_path.base,
                                 ext |-> ".svg"]
                  r == convert_dxf_to_svg(dxf_path, output_svg, svg_width,
                                          svg_height, stroke_width, write_ok)
              IN  /\ iter' = iter + 1
                  /\ call' = [made |-> TRUE, dxf_path |-> dxf_path,
                              output_path |-> output_svg, result |-> r,
                              overwrote |-> r.written /\
                                  \E f \in files : f.path = r.output_path]
                  /\ log_text' = log_text \o <<StartLine(dxf_path), ResultLine(r)>>
                  /\ files' = IF r.written
                              THEN {f \in files : f.path # r.output_path}
                                   \cup {[path |-> r.output_path,
                                          content |-> r.content]}
                              ELSE files
                  /\ IF leaves_loop(r)
                     THEN /\ status_var' = "failed"
                          /\ worker' = "none"
                          /\ after_queue' = Append(after_queue, "finish_conversion")
                     ELSE UNCHANGED <<status_var, worker, after_queue>>
                  /\ UNCHANGED open_button
       ELSE /\ status_var' = "batch_done"
            /\ open_button' = "normal"
            /\ worker' = "none"
            /\ after_queue' = Append(after_queue, "finish_conversion")
            /\ UNCHANGED <<iter, call, log_text, files>>
    /\ UNCHANGED <<converterVars, dxf_paths, output_dir, convert_button,
                   edited>>

\* finish_conversion, run by the main loop from the after queue
finish_conversion ==
    /\ after_queue # <<>>
    /\ after_queue' = Tail(after_queue)
    /\ convert_button' = "normal"
    /\ UNCHANGED <<converterVars, dxf_paths, output_dir, open_button,
                   status_var, log_text, worker, iter, files, call, edited>>

Init == GuiInit /\ GroupIdle /\ NormIdle /\ ExtractIdle /\ EmitIdle

\* the variables of the other specifications
otherVars == <<groupVars, normVars, extractVars, emitVars, batch>>

Next ==
    \/ \E filenames \in Selections :
         browse_dxf_files(filenames) /\ UNCHANGED otherVars
    \/ \E selected \in SUBSET (1..Len(dxf_paths)) :
         remove_selected_files(selected) /\ UNCHANGED otherVars
    \/ \E w \in WidthTexts, h \in HeightTexts, sw \in StrokeTexts :
         start_conversion(w, h, sw) /\ UNCHANGED otherVars
    \/ perform_batch_conversion /\ UNCHANGED otherVars
    \/ finish_conversion /\ UNCHANGED otherVars

Spec == Init /\ [][Next]_vars

(***************************************************************************)
(* SpecFair: Spec with the scheduling the program relies on: a started     *)
(* thread keeps running (threading.Thread.start, line 113-115) and the Tk  *)
(* main loop runs every callback given to root.after (line 137).           *)
(***************************************************************************)
\* Weak fairness of the worker's step is written out as
\*   []<>(~ENABLED <<A>>_vars) \/ []<><<A>>_vars
\* with ENABLED <<perform_batch_conversion>>_vars replaced by its value,
\* worker = "running": the action has no other guard, and each of its steps
\* advances iter or ends the thread.
Fairness ==
    /\ \/ []<>(worker # "running")
       \/ []<><<perform_batch_conversion /\ UNCHANGED otherVars>>_vars
    /\ WF_vars(finish_conversion /\ UNCHANGED otherVars)

SpecFair == Spec /\ Fairness

(***************************************************************************)
(* SpecTracked: Spec with the history variable `batch`.                    *)
(***************************************************************************)
pureVars == <<groupVars, normVars, extractVars, emitVars>>

\* batch is set when start_conversion starts the thread (line 113) and
\* emptied when perform_batch_conversion returns
TrackBatch ==
    batch' = IF worker = "none" /\ worker' = "running" THEN dxf_paths
             ELSE IF worker' = "none" THEN <<>>
             ELSE batch

NextTracked ==
    \/ \E filenames \in Selections :
         browse_dxf_files(filenames) /\ TrackBatch /\ UNCHANGED pureVars
    \/ \E selected \in SUBSET (1..Len(dxf_paths)) :
         remove_selected_files(selected) /\ TrackBatch /\ UNCHANGED pureVars
    \/ \E w \in WidthTexts, h \in HeightTexts, sw \in StrokeTexts :
         start_conversion(w, h, sw) /\ TrackBatch /\ UNCHANGED pureVars
    \/ perform_batch_conversion /\ TrackBatch /\ UNCHANGED pureVars
    \/ finish_conversion /\ TrackBatch /\ UNCHANGED pureVars

SpecTracked == Init /\ [][NextTracked]_vars

(***************************************************************************)
(* Claims about the grouper (checked under SpecGroup).                     *)
(***************************************************************************)
\* the positions <<g, k>> of the returned groups
GroupSlots ==
    UNION {{<<g, k>> : k \in 1..Len(groups[g])} : g \in 1..Len(groups)}

Occurrences(i) == Cardinality({p \in GroupSlots : groups[p[1]][p[2]] = i})

Members(g) == {groups[g][k] : k \in 1..Len(groups[g])}

SegmentIndices == {i \in 1..Len(entities) : entities[i].type = "LINE"}

OnlyLinesAndPolylines ==
    \A i \in 1..Len(entities) :
        entities[i].type \in {"LINE", "POLYLINE", "LWPOLYLINE"}

\* C1: for an input of LINE and POLYLINE/LWPOLYLINE entities the returned
\* groups are a partition of the input indices: every entity is in exactly
\* one group and no group is empty.
C1_Partition ==
    (gpc = "done" /\ OnlyLinesAndPolylines) =>
        /\ \A i \in 1..Len(entities) : Occurrences(i) = 1
        /\ \A g \in 1..Len(groups) : groups[g] # <<>>

\* a closed cycle of three segments under tolerance 4, where the first
\* segment's two endpoints quantize to the same key: one group of three
C1_Witness ==
    /\ gpc = "done"
    /\ tol = RInt(4)
    /\ entities = <<LineEntity(Pt(0, 0), Pt(2, 0)),
                    LineEntity(Pt(2, 0), Pt(3, 2)),
                    LineEntity(Pt(3, 2), Pt(0, 0))>>
    /\ point_key(Pt(0, 0), tol) = point_key(Pt(2, 0), tol)
    /\ Len(groups) = 1
    /\ Members(1) = {1, 2, 3}

\* C2: every non-segment entity, the flattened curves ARC_SEGMENTS and
\* CIRCLE_SEGMENTS included, is returned as a group of its own, and the
\* groups cover every input entity exactly once.
C2_NonSegmentsSingleton ==
    gpc = "done" =>
        /\ \A i \in 1..Len(entities) : Occurrences(i) = 1
        /\ \A i \in 1..Len(entities) :
             entities[i].type # "LINE" =>
                 \E g \in 1..Len(groups) : groups[g] = <<i>>

\* the endpoint-adjacency graph of the segments
EndpointKeys(i) ==
    {point_key(entities[i].start, tol), point_key(entities[i].end, tol)}

Adjacent(i, j) == EndpointKeys(i) \cap EndpointKeys(j) # {}

RECURSIVE Component(_)
Component(S) ==
    LET S2 == S \cup {j \in SegmentIndices : \E i \in S : Adjacent(i, j)}
    IN  IF S2 = S THEN S ELSE Component(S2)

\* C3: the groups of segments are the connected components of the
\* endpoint-adjacency graph: two LINE entities share a group iff a chain of
\* LINE entities with common quantized endpoint keys links them.
C3_ConnectedComponents ==
    gpc = "done" =>
        \A i \in SegmentIndices :
            \E g \in 1..Len(groups) : Members(g) = Component({i})

\* segments 1 and 3 share both endpoints and are grouped; segment 2 crosses
\* segment 1 without a common endpoint and stays alone
C3_Witness ==
    /\ gpc = "done"
    /\ tol = RInt(1)
    /\ entities = <<LineEntity(Pt(0, 0), Pt(3, 2)),
                    LineEntity(Pt(2, 0), Pt(0, 3)),
                    LineEntity(Pt(3, 2), Pt(0, 0))>>
    /\ groups = <<(<<1, 3>>), (<<2>>)>>

\* the groups whose members are segments
SegmentGroupIndices ==
    {g \in 1..Len(groups) : groups[g] # <<>> /\ Members(g) \subseteq SegmentIndices}

MinOf(S) == CHOOSE m \in S : \A x \in S : m <= x

\* C9: segment groups come out in the order of their seed segments: an
\* earlier segment group has the smaller lowest input index, and every
\* segment group starts with its lowest-index member.
C9_SeedOrder ==
    gpc = "done" =>
        /\ \A g1, g2 \in SegmentGroupIndices :
             g1 < g2 => MinOf(Members(g1)) < MinOf(Members(g2))
        /\ \A g \in SegmentGroupIndices : groups[g][1] = MinOf(Members(g))

\* two segment groups, the first one seeded by index 1 and completed by
\* index 3, ahead of the group seeded by index 2
C9_Witness ==
    /\ gpc = "done"
    /\ Len(entities) = 3
    /\ SegmentIndices = {1, 2, 3}
    /\ Len(groups) = 2
    /\ groups[1][1] = 1 /\ Members(1) = {1, 3}
    /\ groups[2] = <<2>>
    /\ entities[1].start # entities[3].end

(***************************************************************************)
(* Claims about the normalizer (checked under SpecNorm).                   *)
(***************************************************************************)
InPoints == points_of(n_entities)
OutPoints == points_of(normalized.entities)

LowX == target.margin
HighX == RSub(target.target_width, target.margin)
LowY == target.margin
HighY == RSub(target.target_height, target.margin)

InCanvas(p) ==
    /\ RLe(LowX, p[1]) /\ RLe(p[1], HighX)
    /\ RLe(LowY, p[2]) /\ RLe(p[2], HighY)

\* W > 2m and H > 2m
CanvasExceedsMargins == RLt(LowX, HighX) /\ RLt(LowY, HighY)

\* W >= 2m and H >= 2m: the rectangle [m, W-m] x [m, H-m] is not empty
CanvasNotEmpty == RLe(LowX, HighX) /\ RLe(LowY, HighY)

ZeroWidth == \A k, l \in 1..Len(InPoints) : InPoints[k][1] = InPoints[l][1]
ZeroHeight == \A k, l \in 1..Len(InPoints) : InPoints[k][2] = InPoints[l][2]

TouchesX ==
    /\ \E k \in 1..Len(OutPoints) : OutPoints[k][1] = LowX
    /\ \E k \in 1..Len(OutPoints) : OutPoints[k][1] = HighX

TouchesY ==
    /\ \E k \in 1..Len(OutPoints) : OutPoints[k][2] = LowY
    /\ \E k \in 1..Len(OutPoints) : OutPoints[k][2] = HighY

\* C4: for a non-empty entity list and W > 2m, H > 2m every returned point
\* lies in [m, W-m] x [m, H-m]; if the input box has positive width and
\* height, the returned points reach both bounds of at least one axis.
C4_FitsCanvas ==
    (/\ npc = "done"
     /\ n_entities # <<>>
     /\ normalized.error = "none"
     /\ CanvasExceedsMargins) =>
        /\ Len(OutPoints) = Len(InPoints)
        /\ \A k \in 1..Len(OutPoints) : InCanvas(OutPoints[k])
        /\ (~ZeroWidth /\ ~ZeroHeight) => (TouchesX \/ TouchesY)

\* two entities with a box of positive width and height on a canvas whose
\* height binds: the output spans the full height, not the full width
C4_Witness ==
    /\ npc = "done"
    /\ Len(n_entities) = 2
    /\ normalized.error = "none"
    /\ CanvasExceedsMargins
    /\ ~ZeroWidth /\ ~ZeroHeight
    /\ TouchesY /\ ~TouchesX

\* the scale of the call, from the bounding box of the whole input
CallScale ==
    transform_of(get_bounding_box(n_entities), target.target_width,
                 target.target_height, target.margin).scale

\* C5: one transform serves every point of every entity: for input points
\* p, q and their images p', q', x'(p) - x'(q) = scale * (x(p) - x(q)) and
\* y'(p) - y'(q) = -scale * (y(p) - y(q)), with the scale of the whole set.
C5_OneTransform ==
    (npc = "done" /\ normalized.error = "none" /\ n_entities # <<>>) =>
        /\ Len(OutPoints) = Len(InPoints)
        /\ LET scale == CallScale
                   ins == InPoints
                   outs == OutPoints
               IN  \A k, l \in 1..Len(ins) :
                     /\ RSub(outs[k][1], outs[l][1])
                          = RMul(scale, RSub(ins[k][1], ins[l][1]))
                     /\ RSub(outs[k][2], outs[l][2])
                          = RMul(RSub(RInt(0), scale),
                                 RSub(ins[k][2], ins[l][2]))

\* a segment and a polyline whose own boxes differ from the box of the
\* pair, scaled by a factor other than 1
C5_Witness ==
    /\ npc = "done"
    /\ normalized.error = "none"
    /\ Len(n_entities) = 2
    /\ n_entities[1].type = "LINE"
    /\ n_entities[2].type = "LWPOLYLINE"
    /\ Len(n_entities[2].points) = 2
    /\ get_bounding_box(<<n_entities[1]>>) # get_bounding_box(n_entities)
    /\ get_bounding_box(<<n_entities[2]>>) # get_bounding_box(n_entities)
    /\ CallScale \notin {RInt(1), RInt(0)}

CallTransform ==
    transform_of(get_bounding_box(n_entities), target.target_width,
                 target.target_height, target.margin)

Half(r) == RDiv(r, RInt(2))

\* C10: a bounding box of zero width and/or zero height is no failure: the
\* call never divides by zero, the scale factor of a zero-extent axis is 1,
\* the points sit at W/2 on a zero-width axis and at H/2 on a zero-height
\* axis, and they lie in [m, W-m] x [m, H-m] whenever that rectangle is not
\* empty.
C10_DegenerateBox ==
    npc = "done" =>
        /\ normalized.error # ZeroDivisionError
        /\ (InPoints # <<>> /\ (ZeroWidth \/ ZeroHeight)) =>
             /\ normalized.error = "none"
             /\ Len(OutPoints) = Len(InPoints)
             /\ ZeroWidth =>
                  /\ CallTransform.scale_x = RInt(1)
                  /\ \A k \in 1..Len(OutPoints) :
                       OutPoints[k][1] = Half(target.target_width)
             /\ ZeroHeight =>
                  /\ CallTransform.scale_y = RInt(1)
                  /\ \A k \in 1..Len(OutPoints) :
                       OutPoints[k][2] = Half(target.target_height)
             /\ CanvasNotEmpty =>
                  \A k \in 1..Len(OutPoints) : InCanvas(OutPoints[k])

\* a single point is mapped to the centre of the canvas
C10_Witness ==
    /\ npc = "done"
    /\ normalized.error = "none"
    /\ Len(InPoints) = 1
    /\ CanvasExceedsMargins
    /\ OutPoints = <<(<<Half(target.target_width),
                        Half(target.target_height)>>)>>

(***************************************************************************)
(* Claims about the converter and the batch GUI (checked under Spec).      *)
(***************************************************************************)
Range(seq) == {seq[k] : k \in DOMAIN seq}

IsPrefix(a, b) == Len(a) <= Len(b) /\ a = SubSeq(b, 1, Len(a))

\* a step in which the worker makes one convert_dxf_to_svg call
ConvertStep == worker = "running" /\ iter' = iter + 1

\* C6: convert_dxf_to_svg enters its stages in the order load, extract,
\* normalize, emit, write.  When load_dxf fails the call returns the load
\* failure result without extracting; when extraction yields no entity it
\* returns a different failure result without normalizing; in both cases the
\* files on disk are unchanged.  A success result is returned only with the
\* write stage entered and the output file on disk with the emitted content.
C6_StageOrder ==
    [][ConvertStep =>
         LET c == call'
             r == c.result
             doc == load_dxf(c.dxf_path)
         IN  /\ c.made
             /\ IsPrefix(r.trace, StageOrder)
             /\ doc = None =>
                  /\ ~r.raised /\ ~r.success
                  /\ r.message = "load_failed"
                  /\ "extract_all_lines" \notin Range(r.trace)
                  /\ files' = files
             /\ (doc # None /\ extract_all_lines(doc) = <<>>) =>
                  /\ ~r.raised /\ ~r.success
                  /\ r.message = "no_lines"
                  /\ "normalize_coordinates" \notin Range(r.trace)
                  /\ files' = files
             /\ (~r.raised /\ r.success) =>
                  /\ r.trace = StageOrder
                  /\ [path |-> c.output_path, content |-> r.content] \in files'
       ]_vars

\* a batch in which a written file is followed by a file without geometry
C6_Witness ==
    /\ call.made
    /\ call.dxf_path = Blank
    /\ call.result.message = "no_lines"
    /\ \E f \in files : f.path.base = "frame"
    /\ \E k \in DOMAIN log_text :
         log_text[k].kind = "fail" /\ log_text[k].message = "load_failed"

\* the files the worker has attempted, in the order of their start lines
Attempted ==
    LET starts == SelectSeq(log_text, LAMBDA l : l.kind = "start")
    IN  [k \in DOMAIN starts |-> starts[k].path]

\* converting this file raises instead of returning a result
Raises(path) ==
    convert_dxf_to_svg(path, NonePath, svg_width, svg_height, stroke_width,
                       TRUE).raised

\* a worker was started on the present list, none of whose files raises
UndisturbedBatch ==
    /\ status_var # "ready"
    /\ ~edited
    /\ \A k \in DOMAIN dxf_paths : ~Raises(dxf_paths[k])

\* C7: the worker attempts the files of the list one at a time in list
\* order, each attempt logged with its result before the next starts; a
\* failure result does not end the batch: once the worker is over every file
\* of the list has been attempted and the status is the completed one.
C7_BatchContinues ==
    UndisturbedBatch =>
      /\ Attempted = SubSeq(dxf_paths, 1, iter)
      /\ Len(log_text) = 2 * iter
      /\ \A k \in 1..iter :
           /\ log_text[2 * k - 1] = StartLine(dxf_paths[k])
           /\ log_text[2 * k].kind \in {"ok", "fail"}
      /\ worker = "running" => status_var = "converting"
      /\ worker = "none" =>
           /\ iter = Len(dxf_paths)
           /\ status_var = "batch_done"

\* a finished batch whose first file failed to load and whose second was saved
C7_Witness ==
    /\ UndisturbedBatch
    /\ worker = "none"
    /\ dxf_paths = <<Corrupt, Frame>>
    /\ log_text[2] = [kind |-> "fail", message |-> "load_failed"]
    /\ log_text[4].kind = "ok"
    /\ status_var = "batch_done"

\* the configuration the converter holds is numeric and in range
ValidConfiguration ==
    /\ svg_width >= 2 * Margin
    /\ svg_height >= 2 * Margin
    /\ RLt(RInt(0), stroke_width)

\* C8: start_conversion starts no worker, and so no file is loaded or
\* converted, unless the supplied width, height and stroke width are numeric
\* and in range (positive, the canvas at least twice the margin).
C8_RejectsInvalid ==
    worker = "running" => ValidConfiguration

(***************************************************************************)
(* Further claims about the normalizer (checked under SpecNorm).           *)
(***************************************************************************)
\* the bounding box (min_x, min_y, max_x, max_y) as a tuple of integers
Placeholder == <<RInt(0), RInt(0), RInt(100), RInt(100)>>

BoxTuple(box) == <<box.min_x, box.min_y, box.max_x, box.max_y>>

\* C11: for an empty entity list get_bounding_box returns the placeholder
\* (0, 0, 100, 100) and normalize_coordinates returns an empty list without
\* raising.
C11_EmptyInput ==
    (npc = "done" /\ n_entities = <<>>) =>
      /\ get_bounding_box(n_entities).error = "none"
      /\ BoxTuple(get_bounding_box(n_entities)) = Placeholder
      /\ normalized.error = "none"
      /\ normalized.entities = <<>>

\* normalize_coordinates has returned for the empty list
C11_Witness ==
    /\ npc = "done"
    /\ n_entities = <<>>
    /\ normalized.entities = <<>>

\* the transform of the second call, made on the output of the first
AgainTransform ==
    transform_of(get_bounding_box(normalized.entities), target.target_width,
                 target.target_height, target.margin)

\* the input has a bounding box of positive width and height
NonDegenerate == InPoints # <<>> /\ ~ZeroWidth /\ ~ZeroHeight

\* C12: for a non-degenerate input and W > 2m, H > 2m, normalizing the
\* output again with the same W, H, m has scale 1 and the offsets of the
\* first call, and returns geometry with the bounding box of its input.
C12_Renormalize ==
    (npc = "again" /\ NonDegenerate /\ CanvasExceedsMargins) =>
      /\ renormalized.error = "none"
      /\ AgainTransform.scale = RInt(1)
      /\ AgainTransform.offset_x = CallTransform.offset_x
      /\ AgainTransform.offset_y = CallTransform.offset_y
      /\ get_bounding_box(renormalized.entities)
           = get_bounding_box(normalized.entities)

\* a second call after a first call that scaled by a factor other than 1
\* and whose offsets are not the margin
C12_Witness ==
    /\ npc = "again"
    /\ NonDegenerate
    /\ CanvasExceedsMargins
    /\ CallTransform.scale # RInt(1)
    /\ CallTransform.offset_y # target.margin
    /\ renormalized.entities # normalized.entities

(***************************************************************************)
(* Further claims about the converter and the batch GUI (under Spec).      *)
(***************************************************************************)
\* the settings an output file was written with, read back from its content
WrittenWith(content) ==
    /\ content.width = svg_width
    /\ content.height = svg_height
    /\ \A k \in DOMAIN content.children :
         content.children[k].stroke_width = stroke_width

\* the outcome of a call without what depends on the disk (write_ok)
Verdict(r) ==
    IF r.raised THEN <<"raised", r.error>>
    ELSE IF r.message \in {"saved", "save_failed"} THEN <<"emitted">>
    ELSE <<r.message>>

Attributes(e) ==
    IF e.type = "LINE" THEN <<e.type, e.layer, e.color>>
    ELSE <<e.type, Len(e.points), e.closed, e.layer, e.color>>

\* C14: the calls leave their argument as it was: after
\* group_lines_and_polylines and after normalize_coordinates the input list
\* holds the same entities with the same fields.  normalize_coordinates
\* returns as many entities as it was given, in the same order, each with the
\* type, closed flag, layer and colour of its input entity.
C14_InputsUntouched ==
    [][/\ CallGroup => entities' = entities
       /\ CallNormalize =>
            /\ n_entities' = n_entities
            /\ normalized'.error = "none" =>
                 /\ Len(normalized'.entities) = Len(n_entities)
                 /\ \A i \in 1..Len(n_entities) :
                      Attributes(normalized'.entities[i])
                        = Attributes(n_entities[i])
       /\ CallAgain => normalized' = normalized
      ]_vars

\* a closed polyline on its own layer normalized after a segment, its
\* coordinates changed
C14_Witness ==
    /\ npc = "done"
    /\ normalized.error = "none"
    /\ Len(n_entities) = 2
    /\ n_entities[1].type = "LINE"
    /\ n_entities[2] = Outline
    /\ normalized.entities[2].points # Outline.points
    /\ normalized.entities[2].closed

(***************************************************************************)
(* Claims about the extractor (checked under SpecExtract).                 *)
(***************************************************************************)
\* the recognized primitives of the modelspace, in its order
Recognized == SelectSeq(msp, LAMBDA p : p.dxftype \in RecognizedTypes)

CanonicalType(dxftype) ==
    IF dxftype = "ARC" THEN "ARC_SEGMENTS"
    ELSE IF dxftype = "CIRCLE" THEN "CIRCLE_SEGMENTS"
    ELSE dxftype

\* entity e is the canonical entity of primitive p
CanonicalOf(e, p) ==
    /\ e.type = CanonicalType(p.dxftype)
    /\ e.layer = p.layer
    /\ p.dxftype = "LINE" => (e.start = p.start /\ e.end = p.end)
    /\ p.dxftype \in {"LWPOLYLINE", "POLYLINE"} =>
         (e.points = p.points /\ e.closed = p.closed)
    /\ p.dxftype \in {"ARC", "CIRCLE"} =>
         \A k \in DOMAIN e.points :
           e.points[k].center = p.center /\ e.points[k].radius = p.radius

\* C16: extract_all_lines returns one canonical entity for each LINE,
\* LWPOLYLINE, POLYLINE, ARC and CIRCLE primitive, in the order of the
\* primitives; a primitive of another type yields no entity and no error.
C16_OnePerRecognized ==
    xpc = "done" =>
      /\ Len(line_entities) = Len(Recognized)
      /\ \A k \in 1..Len(Recognized) :
           CanonicalOf(line_entities[k], Recognized[k])

\* a modelspace with a primitive of another type before an arc
C16_Witness ==
    /\ xpc = "done"
    /\ Len(msp) = 2
    /\ msp[1].dxftype = "SPLINE"
    /\ msp[2].dxftype = "ARC"
    /\ Len(line_entities) = 1
    /\ line_entities[1].type = "ARC_SEGMENTS"

\* floor(sweep_radians * radius / 10) for a sweep held as a multiple of pi,
\* defined where the two bounds of pi agree on it
FloorTenths(sweep, radius) ==
    LET low == RDiv(RMul(RMul(sweep, PiLow), radius), RInt(10))
        high == RDiv(RMul(RMul(sweep, PiHigh), radius), RInt(10))
    IN  IF Trunc(low) = Trunc(high) THEN Trunc(low) ELSE -1

Max2(a, b) == IF a >= b THEN a ELSE b

\* the sweep of a flattened arc: last sample angle minus first sample angle
SweepOf(e) == RSub(e.points[Len(e.points)].angle, e.points[1].angle)

QuarterArc == Arc(50, 0, 90)

\* entity e is the flattening the arc rule prescribes for ARC primitive p
ArcFlattened(e, p) ==
    LET start == radians(p.start_angle)
        end == radians(p.end_angle)
        sweep == IF RLt(end, start) THEN RSub(RAdd(end, TwoPi), start)
                 ELSE RSub(end, start)
        count == Max2(8, FloorTenths(sweep, p.radius))
    IN  /\ RLt(RInt(0), sweep)
        /\ FloorTenths(sweep, p.radius) >= 0
        /\ Len(e.points) = count + 1
        /\ e.points[1].angle = start
        /\ SweepOf(e) = sweep
        /\ \A k \in 1..count :
             RSub(e.points[k + 1].angle, e.points[k].angle)
               = RDiv(sweep, RInt(count))
        /\ e.closed = FALSE
        /\ p = QuarterArc => Len(e.points) = 9

\* C17: every ARC is flattened with a positive sweep (a full turn added when
\* the end angle is below the start angle) into max(8, floor(sweep * radius
\* / 10)) segments, that is segment count + 1 points at equal angular steps,
\* not closed; the quarter arc of radius 50 has 8 segments and 9 points.
C17_ArcFlattening ==
    xpc = "done" =>
      \A k \in 1..Len(Recognized) :
        Recognized[k].dxftype = "ARC" =>
          ArcFlattened(line_entities[k], Recognized[k])

(***************************************************************************)
(* Claims about the emitter (checked under SpecEmit).                      *)
(***************************************************************************)
\* the entities that are drawn: every LINE, every other entity with a point
Drawn == SelectSeq(e_entities, LAMBDA e : e.type = "LINE" \/ e.points # <<>>)

\* element el is the drawing primitive of entity e
ElementOf(el, e) ==
    IF e.type = "LINE"
    THEN /\ el.tag = "line"
         /\ <<el.x1, el.y1>> = <<Fmt2(e.start[1]), Fmt2(e.start[2])>>
         /\ <<el.x2, el.y2>> = <<Fmt2(e.end[1]), Fmt2(e.end[2])>>
    ELSE /\ el.tag = "path"
         /\ Len(el.d) = Len(e.points) + (IF e.closed THEN 1 ELSE 0)
         /\ \A k \in 1..Len(e.points) :
              /\ el.d[k].cmd = (IF k = 1 THEN "M" ELSE "L")
              /\ <<el.d[k].x, el.d[k].y>>
                   = <<Fmt2(e.points[k][1]), Fmt2(e.points[k][2])>>
         /\ (el.d[Len(el.d)].cmd = "Z") <=> e.closed

\* C15: entities_to_svg_elements emits one element for each LINE and for
\* each other entity with at least one point, in the order of the input; an
\* entity without points is passed over; a path ends with Z exactly when its
\* entity is closed.
C15_DrawOrder ==
    epc = "done" =>
      /\ Len(svg_elements) = Len(Drawn)
      /\ \A k \in 1..Len(Drawn) : ElementOf(svg_elements[k], Drawn[k])

\* a closed polyline, an entity without points and a segment, in this order
C15_Witness ==
    /\ epc = "done"
    /\ Len(e_entities) = 3
    /\ e_entities[1].type = "POLYLINE" /\ Len(e_entities[1].points) = 2
    /\ e_entities[2].type = "LWPOLYLINE" /\ e_entities[2].points = <<>>
    /\ e_entities[3].type = "LINE"
    /\ Len(svg_elements) = 2
    /\ svg_elements[1].tag = "path"
    /\ svg_elements[2].tag = "line"

\* C18: get_color_by_index resolves every index: 1 to 15 to the entry of the
\* table (1 to #FF0000), any other integer to #000000.
C18_ColorTotal ==
    epc = "done" =>
      \A k \in 1..Len(Drawn) :
        LET c == Drawn[k].color
            stroke == svg_elements[k].stroke
        IN  /\ c = 1 => stroke = "#FF0000"
            /\ c \in 1..15 => stroke = color_map[c]
            /\ c \notin 1..15 => stroke = "#000000"

\* an entity with colour index 99 drawn in the default colour
C18_Witness ==
    /\ epc = "done"
    /\ e_entities = <<ColouredLine(99)>>
    /\ svg_elements[1].stroke = "#000000"

(***************************************************************************)
(* Further claims about the grouper (checked under SpecGroup).             *)
(***************************************************************************)
RAbs(r) == IF r[1] < 0 THEN <<-r[1], r[2]>> ELSE r

\* p and q differ by less than tol / 2 in x and in y
WithinHalfTol(p, q) ==
    /\ RLt(RAbs(RSub(p[1], q[1])), RDiv(tol, RInt(2)))
    /\ RLt(RAbs(RSub(p[2], q[2])), RDiv(tol, RInt(2)))

Endpoints(i) == {entities[i].start, entities[i].end}

SameGroup(i, j) == \E g \in 1..Len(groups) : {i, j} \subseteq Members(g)

\* C19: two endpoints less than tol / 2 apart in x and in y have the same
\* point_key, and two segments with such endpoints are in the same group.
C19_HalfTolJoins ==
    gpc = "done" =>
      \A i, j \in SegmentIndices :
        \A p \in Endpoints(i), q \in Endpoints(j) :
          WithinHalfTol(p, q) =>
            /\ point_key(p, tol) = point_key(q, tol)
            /\ SameGroup(i, j)

(***************************************************************************)
(* Claims about the worker and the list (checked under SpecTracked).       *)
(***************************************************************************)
\* the step in which perform_batch_conversion returns
WorkerEnds == worker = "running" /\ worker' = "none"

\* C20: when the worker is over, the files it attempted are the files that
\* were in the list when start_conversion launched it, each once and in list
\* order, whatever browse_dxf_files and remove_selected_files did meanwhile
\* (for a batch none of whose files raises an exception).
C20_LaunchListAttempted ==
    [][(WorkerEnds /\ \A k \in DOMAIN batch : ~Raises(batch[k]))
         => Attempted = batch]_vars

(***************************************************************************)
(* Claims about the worker's life cycle (checked under SpecFair).          *)
(***************************************************************************)

\* the thread is started (line 115)
WorkerStarts == worker = "none" /\ worker' = "running"

\* the convert button goes from disabled to enabled
ButtonReenabled == convert_button = "disabled" /\ convert_button' = "normal"

\* the step is finish_conversion, taken from the after queue, and the
\* thread that scheduled it has left its body
FinishStep ==
    /\ worker = "none"
    /\ after_queue # <<>>
    /\ Head(after_queue) = "finish_conversion"
    /\ after_queue' = Tail(after_queue)

\* C21: at most one worker runs at a time (while one runs the convert button,
\* the only way to start one, is disabled and no finish_conversion is
\* pending); the converter settings change only while no worker runs; the
\* thread is started with the button already disabled; the button is
\* re-enabled only by a finish_conversion that a finished worker scheduled;
\* and after every started conversion, whatever its outcome, the button is
\* eventually enabled again.
C21_OneWorker ==
    /\ [](worker = "running" =>
            convert_button = "disabled" /\ after_queue = <<>>)
    /\ [][converterVars' # converterVars => worker = "none"]_vars
    /\ [][WorkerStarts => convert_button' = "disabled"]_vars
    /\ [][ButtonReenabled => FinishStep]_vars
    /\ (worker = "running" ~> convert_button = "normal")

\* a batch whose conversion raised has ended and the button is enabled again
C21_Witness ==
    /\ call.made
    /\ call.result.raised
    /\ worker = "none"
    /\ status_var = "failed"
    /\ after_queue = <<>>
    /\ convert_button = "normal"

(***************************************************************************)
(* Claims about exceptions in a batch (checked under Spec).                *)
(***************************************************************************)

\* a batch has been run to its end on the present list, which was not edited
\* since the worker was started
BatchOver == worker = "none" /\ status_var # "ready" /\ ~edited

\* C22: an exception raised by one file's conversion halts only that file:
\* once the worker is over, every file of the list has been attempted, in
\* list order, also when an earlier file's conversion raised.
C22_ExceptionHaltsOneFile == BatchOver => Attempted = dxf_paths

(***************************************************************************)
(* Claims about rejected configurations (checked under Spec).              *)
(***************************************************************************)

\* start_conversion reaches the try statement of lines 102-108 and one of
\* the three conversions raises ValueError
RejectsSettings(w, h, sw) ==
    /\ dxf_paths # <<>>
    /\ output_dir # ""
    /\ ~(ParseInt(w).ok /\ ParseInt(h).ok /\ ParseFloat(sw).ok)

\* C23: a start_conversion that rejects the configuration because a setting
\* does not parse leaves the converter's svg_width, svg_height and
\* stroke_width as they were before the call, and leaves the convert button,
\* the log and the status unchanged.
C23_RejectionChangesNothing ==
    [][\A w \in WidthTexts, h \in HeightTexts, sw \in StrokeTexts :
         (RejectsSettings(w, h, sw) /\ start_conversion(w, h, sw))
           => UNCHANGED <<svg_width, svg_height, stroke_width,
                          convert_button, log_text, status_var>>]_vars

(***************************************************************************)
(* Claims about the order of the groups (checked under SpecGroup).         *)
(***************************************************************************)

\* the groups that hold a POLYLINE or LWPOLYLINE entity
PolylineGroupIndices ==
    {g \in 1..Len(groups) :
       \E k \in 1..Len(groups[g]) : entities[groups[g][k]].type \in UsedTypes}

\* C24: in the result, every polyline group is a singleton and comes before
\* every group of segments, wherever polylines and segments stand in the
\* input; the polyline groups follow one another in input order.
C24_PolylinesFirst ==
    gpc = "done" =>
        /\ \A g \in PolylineGroupIndices : Len(groups[g]) = 1
        /\ \A g \in PolylineGroupIndices, h \in SegmentGroupIndices : g < h
        /\ \A g, h \in PolylineGroupIndices :
             g < h => groups[g][1] < groups[h][1]

\* a segment ahead of two polylines in the input, behind them in the result
C24_Witness ==
    /\ gpc = "done"
    /\ Len(entities) = 3
    /\ entities[1].type = "LINE"
    /\ entities[2].type = "LWPOLYLINE"
    /\ entities[3].type = "POLYLINE"
    /\ groups = <<(<<2>>), (<<3>>), (<<1>>)>>

(***************************************************************************)
(* Claims about repeated normalization (checked under SpecNorm).           *)
(***************************************************************************)

\* the points returned by the latest further call
AgainPoints == points_of(renormalized.entities)

\* the point is the mirror image of p about the line y = target_height / 2
Mirrored(q, p) ==
    /\ q[1] = p[1]
    /\ q[2] = RSub(target.target_height, p[2])

\* C25: for a non-degenerate input and W > 2m, H > 2m, the second pass
\* leaves every x of the first pass's output unchanged and maps every y to
\* H - y, so its result differs from the first pass's; the third pass
\* returns exactly what the first pass returned.
C25_MirrorThenBack ==
    (NonDegenerate /\ CanvasExceedsMargins) =>
      /\ npc = "again" =>
           /\ renormalized.error = "none"
           /\ Len(AgainPoints) = Len(OutPoints)
           /\ \A k \in 1..Len(OutPoints) :
                Mirrored(AgainPoints[k], OutPoints[k])
           /\ renormalized.entities # normalized.entities
      /\ npc = "third" =>
           /\ renormalized.error = "none"
           /\ renormalized.entities = normalized.entities

\* a third pass on an input that the first pass scaled and moved
C25_Witness ==
    /\ npc = "third"
    /\ NonDegenerate
    /\ CanvasExceedsMargins
    /\ CallTransform.scale # RInt(1)
    /\ renormalized.entities = normalized.entities
    /\ normalized.entities # n_entities
    /\ \E k \in 1..Len(OutPoints) :
         OutPoints[k][2] # RSub(target.target_height, OutPoints[k][2])

=============================================================================
